---- MODULE Spec2Model ----
(***************************************************************************)
(* Offline sync engine: the local record store, the repository's sync      *)
(* steps, the sync passes and their triggers, for the two implementations  *)
(* of the repository: the React Native one (src/lib, engine "ts") and the  *)
(* native Android one (Kotlin, engine "kt").                               *)
(***************************************************************************)
EXTENDS Integers, Sequences, FiniteSets, TLC

\* ------------------------------------------------------------------ bounds
MaxRecords == 2
MaxPasses == 2
MaxTime == 2

\* ------------------------------------------------------- program constants
TITLE_MAX == 200
BODY_MAX == 5000

\* null of the nullable numeric columns (remoteId, lastSyncAttempt)
Null == 0
\* null of the nullable text column (syncError)
NoError == "null"

Engines == {"ts", "kt"}

PENDING == "PENDING"
SYNCING == "SYNCING"
SYNCED == "SYNCED"
FAILED == "FAILED"

\* ids the remote service hands out on an accepted POST
RemoteIds == {101, 102}

\* ----------------------------------------------------------------- strings
\* A text is modelled by its shape: pre/post count the leading and trailing
\* white space, core is the length between them (0: the text is blank).
Str(pre, core, post) == [pre |-> pre, core |-> core, post |-> post]

Length(s) == s.pre + s.core + s.post

\* String.prototype.trim(): a blank text trims to the empty text.
Trim(s) == IF s.core = 0 THEN Str(0, 0, 0) ELSE Str(0, s.core, 0)

\* Kotlin's CharSequence.isBlank()
IsBlank(s) == s.core = 0

\* JavaScript's !s for a string: true of the empty string only
IsEmpty(s) == Length(s) = 0

\* The texts a caller passes in the runs of the model.
TitleInputs == { Str(1, 0, 0), Str(1, 1, 0), Str(0, TITLE_MAX + 1, 0) }

BodyInputs == { Str(0, 1, 1), Str(0, BODY_MAX + 1, 0) }

VARIABLES
    engine,              \* which implementation runs: "ts" or "kt"
    records,             \* the records table, in insertion order (id = position)
    now,                 \* the wall clock read by Date.now() / currentTimeMillis()
    dbReady,             \* dbInstance # null: the process is up and the store is open
    net,                 \* the network state NetInfo reports
    previouslyConnected, \* setupNetworkListener's closure variable
    isSyncing,           \* SyncProvider's React state
    passes,              \* the sync passes in flight, by task slot
    workState,           \* WorkManager's unique work MANUAL_SYNC_WORK (engine "kt")
    accepted,            \* remote side: whether it stored a post of the record id
    stats                \* the call of getSyncStats in progress and its result

vars == << engine, records, now, dbReady, net, previouslyConnected, isSyncing,
           passes, workState, accepted, stats >>

\* ------------------------------------------------------------------- store
Ids == 1..MaxRecords

StoredIds == 1..Len(records)

\* NewEntity with the creation time as lastSyncAttempt.
NewEntityAttempted(id, title, body) ==
    [ id |-> id, title |-> title, body |-> body, createdAt |-> now,
      syncStatus |-> PENDING, remoteId |-> Null, lastSyncAttempt |-> now,
      syncError |-> NoError ]

\* RecordEntity as createRecord builds it
NewEntity(id, title, body) ==
    [ id |-> id, title |-> title, body |-> body, createdAt |-> now,
      syncStatus |-> PENDING, remoteId |-> Null, lastSyncAttempt |-> Null,
      syncError |-> NoError ]

\* An insert that resets the rows already stored.
insertRecordReset(entity) ==
    Append([r \in DOMAIN records |-> [records[r] EXCEPT !.syncStatus = PENDING]],
           entity)

\* INSERT INTO records ...
insertRecord(entity) == Append(records, entity)

\* updateRecord binding an empty text to the title column.
updateRecordTitleLost(entity) ==
    [records EXCEPT ![entity.id] =
        [@ EXCEPT !.title = Str(0, 0, 0), !.body = entity.body,
                  !.syncStatus = entity.syncStatus, !.remoteId = entity.remoteId,
                  !.lastSyncAttempt = entity.lastSyncAttempt,
                  !.syncError = entity.syncError]]

\* updateRecord with the syncError column left out of the UPDATE.
updateRecordErrorKept(entity) ==
    [records EXCEPT ![entity.id] =
        [@ EXCEPT !.title = entity.title, !.body = entity.body,
                  !.syncStatus = entity.syncStatus, !.remoteId = entity.remoteId,
                  !.lastSyncAttempt = entity.lastSyncAttempt]]

\* UPDATE records SET title, body, syncStatus, remoteId, lastSyncAttempt,
\* syncError WHERE id = entity.id
updateRecord(entity) ==
    [records EXCEPT ![entity.id] =
        [@ EXCEPT !.title = entity.title, !.body = entity.body,
                  !.syncStatus = entity.syncStatus, !.remoteId = entity.remoteId,
                  !.lastSyncAttempt = entity.lastSyncAttempt,
                  !.syncError = entity.syncError]]

\* The UPDATE of updateSyncStatus without its WHERE clause.
updateSyncStatusAll(id, syncStatus, remoteId, syncError) ==
    [r \in DOMAIN records |->
        [records[r] EXCEPT !.syncStatus = syncStatus, !.remoteId = remoteId,
                           !.lastSyncAttempt = now, !.syncError = syncError]]

\* UPDATE records SET syncStatus, remoteId, lastSyncAttempt, syncError WHERE id;
\* an omitted remoteId or syncError is written as null (remoteId ?? null).
updateSyncStatus(id, syncStatus, remoteId, syncError) ==
    [records EXCEPT ![id] =
        [@ EXCEPT !.syncStatus = syncStatus, !.remoteId = remoteId,
                  !.lastSyncAttempt = now, !.syncError = syncError]]

\* The ids of seq, last first.
RECURSIVE Reverse(_)
Reverse(seq) ==
    IF seq = << >> THEN << >> ELSE Append(Reverse(Tail(seq)), Head(seq))

\* The ids in insertion order whose record has the status.
RECURSIVE IdsWithStatus(_, _)
IdsWithStatus(n, status) ==
    IF n = 0 THEN << >>
    ELSE IF records[n].syncStatus = status
         THEN Append(IdsWithStatus(n - 1, status), n)
         ELSE IdsWithStatus(n - 1, status)

\* SELECT * FROM records WHERE syncStatus = ? ORDER BY createdAt DESC
\* (the pass reads the ids only; createdAt grows with the insertion order)
getRecordsByStatus(status) == Reverse(IdsWithStatus(Len(records), status))

\* The count without its WHERE clause.
getRecordCount(status) == Len(records)

\* SELECT COUNT(*) FROM records WHERE syncStatus = ?
getRecordCountByStatus(status) == Len(IdsWithStatus(Len(records), status))

\* SELECT * FROM records ORDER BY createdAt DESC: the ids, newest first
getAllRecords == Reverse([r \in 1..Len(records) |-> r])

\* ------------------------------------------------------------- remote client
\* What a POST /posts can end in besides a 2xx response: an axios error with
\* no response (timeout or not), an axios error with a response status, or
\* something that is no axios error.
Timeout == [axios |-> TRUE, response |-> FALSE, code |-> "ECONNABORTED", status |-> Null]
NoConnection == [axios |-> TRUE, response |-> FALSE, code |-> "ERR_NETWORK", status |-> Null]
Http(status) == [axios |-> TRUE, response |-> TRUE, code |-> "ERR_BAD_RESPONSE", status |-> status]
NotAxios == [axios |-> FALSE, response |-> FALSE, code |-> "none", status |-> Null]

ApiError(type, message) == [type |-> type, message |-> message]

StatusMessage(prefix, status) ==
    CASE prefix = "client" /\ status = 400 -> "Client error: 400"
      [] prefix = "client" /\ status = 499 -> "Client error: 499"
      [] prefix = "client" -> "Client error: 4xx"
      [] prefix = "server" /\ status = 500 -> "Server error: 500"
      [] prefix = "server" -> "Server error: 5xx"
      [] OTHER -> "Request failed with status code"

parseAxiosError(error) ==
    IF error.axios /\ ~error.response /\ error.code = "ECONNABORTED"
    THEN ApiError("TIMEOUT", "Request timeout")
    ELSE IF error.axios /\ ~error.response
    THEN ApiError("NETWORK_ERROR", "Network error: Network Error")
    ELSE IF error.axios /\ error.status >= 400 /\ error.status < 500
    THEN ApiError("CLIENT_ERROR", StatusMessage("client", error.status))
    ELSE IF error.axios /\ error.status >= 500
    THEN ApiError("SERVER_ERROR", StatusMessage("server", error.status))
    ELSE ApiError("UNKNOWN_ERROR",
                  IF error.axios THEN StatusMessage("other", error.status)
                  ELSE "Unknown error")

isRetryableError(error) ==
    error.type \in {"NETWORK_ERROR", "TIMEOUT", "SERVER_ERROR"}

\* isPermanentError counting the server errors in.
isPermanentErrorServer(error) == error.type \in {"CLIENT_ERROR", "SERVER_ERROR"}

isPermanentError(error) == error.type = "CLIENT_ERROR"

\* The failures a send can meet: no response in time, no connection, a
\* response with a status outside 2xx, something that is no axios error.
Failures ==
    { Timeout, NoConnection, NotAxios }
    \cup { Http(status) : status \in {304, 399, 400, 404, 499, 500, 503} }

\* Those of them a send meets in the passes of Spec.
SendFailures == { Timeout, Http(400) }

\* mergePostResponse without the remoteId of the response.
mergePostResponseNoRemoteId(entity, response) ==
    [ id |-> entity.id, title |-> entity.title, body |-> entity.body,
      remoteId |-> Null, syncStatus |-> SYNCED,
      lastSyncAttempt |-> now, syncError |-> NoError ]

\* Update RecordEntity with data from the API response
mergePostResponse(entity, response) ==
    [ id |-> entity.id, title |-> entity.title, body |-> entity.body,
      remoteId |-> response.id, syncStatus |-> SYNCED,
      lastSyncAttempt |-> now, syncError |-> NoError ]

\* ------------------------------------------------------------------ passes
Slots == 1..MaxPasses

NoEntity == [id |-> Null]

NoResponse == [kind |-> "none"]

Idle ==
    [ pc |-> "idle", queue |-> << >>, entity |-> NoEntity,
      response |-> NoResponse, results |-> << >> ]

\* An async task running a pass: where it stands (pc), the ids still to do
\* (queue), the local variables entity and response of syncRecord, and the
\* SyncResult list collected so far.
Task(pc, queue) ==
    [ pc |-> pc, queue |-> queue, entity |-> NoEntity,
      response |-> NoResponse, results |-> << >> ]

\* The slot of the pass that SyncProvider.triggerSync awaits; the other slots
\* run the passes of the callers that go to the repository directly
\* (useRecords, the network listener, the background task).
Provider == 1

FreeSlots == { p \in Slots \ {Provider} : passes[p].pc = "idle" }

FirstFree == CHOOSE p \in FreeSlots : \A q \in FreeSlots : p <= q

ActivePasses == { p \in Slots : passes[p].pc # "idle" }

\* SyncResult: the record, whether its step succeeded, the remote id if so,
\* the error message if not
SyncResult(recordId, success, remoteId, error) ==
    [ recordId |-> recordId, success |-> success, remoteId |-> remoteId,
      error |-> error ]

NetStates ==
    { [isConnected |-> TRUE, isInternetReachable |-> "true"],
      [isConnected |-> TRUE, isInternetReachable |-> "null"],
      [isConnected |-> FALSE, isInternetReachable |-> "false"] }

\* isConnected without the test of isInternetReachable.
IsConnectedOnly(state) == state.isConnected

\* state.isConnected && state.isInternetReachable === true
IsConnected(state) == state.isConnected /\ state.isInternetReachable = "true"

\* The network test with isConnected alone.
NetAvailableConnected(state) == state.isConnected

\* the negation of (!netInfo.isConnected || !netInfo.isInternetReachable)
NetAvailable(state) == state.isConnected /\ state.isInternetReachable = "true"

\* A pass ends and the flag stays as it is.
ReleaseKept(p) == isSyncing

\* A pass ends: its slot is free again; triggerSync's finally block releases
\* the flag of the passes it started.
Release(p) ==
    IF p = Provider THEN FALSE ELSE isSyncing

\* ------------------------------------------------------- engine "ts": creation
\* validateRecordInput: TRUE when it throws a ValidationError
validateRecordInput(title, body) ==
    \/ IsEmpty(title) \/ Length(Trim(title)) = 0
    \/ Length(Trim(title)) > TITLE_MAX
    \/ IsEmpty(body) \/ Length(Trim(body)) = 0
    \/ Length(Trim(body)) > BODY_MAX

\* use-cases.createRecord, with repository.createRecord and db.insertRecord
createRecord(title, body, dbOk) ==
    /\ engine = "ts" /\ dbReady
    /\ Len(records) < MaxRecords
    /\ IF ~validateRecordInput(title, body) /\ dbOk
       THEN records' = insertRecord(NewEntity(Len(records) + 1, Trim(title), Trim(body)))
       ELSE UNCHANGED records
    /\ UNCHANGED << engine, stats, now, dbReady, net, previouslyConnected, isSyncing,
                    passes, workState, accepted >>

\* ------------------------------------------------------- engine "ts": triggers
\* repository.syncPendingRecords up to its loop: the task reads the PENDING
\* records and will sync them one by one.
syncPendingRecords(p) ==
    passes' = [passes EXCEPT ![p] = Task("fetch", getRecordsByStatus(PENDING))]

\* background-sync.triggerImmediateSync: no pass without a connection
triggerImmediateSync(p, state) ==
    IF NetAvailable(state) /\ dbReady
    THEN syncPendingRecords(p)
    ELSE UNCHANGED passes

\* use-cases.syncRecords, as useRecords.syncRecords (pull-to-refresh) calls it
syncRecords ==
    /\ engine = "ts" /\ dbReady
    /\ FreeSlots # {}
    /\ syncPendingRecords(FirstFree)
    /\ UNCHANGED << engine, stats, records, now, dbReady, net, previouslyConnected,
                    isSyncing, workState, accepted >>

\* repository.retryFailedSyncs up to its loop: the task reads the FAILED
\* records; with none it returns at once.
retryFailedSyncs ==
    /\ engine = "ts" /\ dbReady
    /\ FreeSlots # {}
    /\ LET failed == getRecordsByStatus(FAILED)
       IN  IF failed = << >>
           THEN UNCHANGED passes
           ELSE passes' = [passes EXCEPT ![FirstFree] = Task("requeue", failed)]
    /\ UNCHANGED << engine, stats, records, now, dbReady, net, previouslyConnected,
                    isSyncing, workState, accepted >>

\* SyncProvider.triggerSync as a closure that sees the flag as seenSyncing.
triggerSync(seenSyncing) ==
    IF seenSyncing
    THEN UNCHANGED << passes, isSyncing >>
    ELSE /\ triggerImmediateSync(Provider, net)
         /\ isSyncing' = (NetAvailable(net) /\ dbReady)

\* triggerSync of the context value: the closure of the latest render
triggerSyncContext ==
    /\ engine = "ts" /\ dbReady
    /\ isSyncing \/ passes[Provider].pc = "idle"
    /\ triggerSync(isSyncing)
    /\ UNCHANGED << engine, stats, records, now, dbReady, net, previouslyConnected,
                    workState, accepted >>

\* SyncProvider.handleAppStateChange: registered once by the mount effect, so
\* it calls the triggerSync of the first render, whose isSyncing is false.
handleAppStateChange(nextAppState) ==
    /\ engine = "ts" /\ dbReady
    /\ passes[Provider].pc = "idle"
    /\ IF /\ nextAppState = "active"
          /\ \/ getRecordCountByStatus(PENDING) > 0
             \/ getRecordCountByStatus(FAILED) > 0
       THEN triggerSync(FALSE)
       ELSE UNCHANGED << passes, isSyncing >>
    /\ UNCHANGED << engine, stats, records, now, dbReady, net, previouslyConnected,
                    workState, accepted >>

\* The NetInfo listener of setupNetworkListener, on an event reporting state.
setupNetworkListener(state) ==
    /\ engine = "ts"
    /\ FreeSlots # {} \/ ~(IsConnected(state) /\ ~previouslyConnected)
    /\ net' = state
    /\ IF IsConnected(state) /\ ~previouslyConnected
       THEN triggerImmediateSync(FirstFree, state)
       ELSE UNCHANGED passes
    /\ previouslyConnected' = IsConnected(state)
    /\ UNCHANGED << engine, stats, records, now, dbReady, isSyncing, workState,
                    accepted >>

\* The periodic task BACKGROUND_SYNC_TASK: opens the store, checks the network,
\* runs a pass.
BACKGROUND_SYNC_TASK ==
    /\ engine = "ts"
    /\ FreeSlots # {}
    /\ dbReady' = TRUE
    /\ IF NetAvailable(net)
       THEN syncPendingRecords(FirstFree)
       ELSE UNCHANGED passes
    /\ UNCHANGED << engine, stats, records, now, net, previouslyConnected, isSyncing,
                    workState, accepted >>

\* ------------------------------------------------- engine "ts": a pass's steps
\* Advance with the loop left after the first result.
AdvanceBreak(p, result) ==
    [passes EXCEPT ![p].queue = << >>, ![p].pc = "fetch",
                   ![p].entity = NoEntity, ![p].response = NoResponse,
                   ![p].results = Append(@, result)]

\* syncRecord returns result: the task in slot p pushes it and moves on to
\* its next record.
Advance(p, result) ==
    [passes EXCEPT ![p].queue = Tail(@), ![p].pc = "fetch",
                   ![p].entity = NoEntity, ![p].response = NoResponse,
                   ![p].results = Append(@, result)]

\* retryFailedSyncs' loop: one FAILED record is marked PENDING. A store error
\* ends retryFailedSyncs in its catch block.
RequeueStep(p, dbOk) ==
    /\ engine = "ts"
    /\ passes[p].pc = "requeue"
    /\ IF dbOk
       THEN /\ records' = updateSyncStatus(Head(passes[p].queue), PENDING, Null, NoError)
            /\ passes' = [passes EXCEPT ![p].queue = Tail(@),
                             ![p].pc = IF Tail(passes[p].queue) = << >>
                                       THEN "select" ELSE "requeue"]
       ELSE /\ passes' = [passes EXCEPT ![p] = Idle]
            /\ UNCHANGED records
    /\ UNCHANGED << engine, stats, now, dbReady, net, previouslyConnected, isSyncing,
                    workState, accepted >>

\* retryFailedSyncs goes on into syncPendingRecords.
SelectPending(p) ==
    /\ engine = "ts"
    /\ passes[p].pc = "select"
    /\ syncPendingRecords(p)
    /\ UNCHANGED << engine, stats, records, now, dbReady, net, previouslyConnected,
                    isSyncing, workState, accepted >>

\* syncRecord: db.getRecordById reads the record of the loop's next id.
StepFetch(p) ==
    /\ engine = "ts"
    /\ passes[p].pc = "fetch"
    /\ passes[p].queue # << >>
    /\ passes' = [passes EXCEPT ![p].entity = records[Head(passes[p].queue)],
                                ![p].pc = "send"]
    /\ UNCHANGED << engine, stats, records, now, dbReady, net, previouslyConnected,
                    isSyncing, workState, accepted >>

\* syncRecord: "Skip if already synced"
AlreadySynced(entity) == entity.syncStatus = SYNCED /\ entity.remoteId # Null

\* What the remote answers to a POST: a 2xx response with the id it assigned
\* (the post is stored then), or a failure.
Answers ==
    { [kind |-> "ok", id |-> rid] : rid \in RemoteIds }
    \cup { [kind |-> "error", error |-> e] : e \in SendFailures }

\* Whatever api.createPost can return or throw.
Responses ==
    { [kind |-> "ok", id |-> rid] : rid \in RemoteIds }
    \cup { [kind |-> "error", error |-> e] : e \in Failures }

\* What syncRecord still reads of its local entity once the request is out:
\* the id, and the title and body that updateRecord writes back.
Sent(entity) == [id |-> entity.id, title |-> entity.title, body |-> entity.body]

\* syncRecord after the read: the skip, or api.createPost and the remote's
\* handling of the request.
StepSend(p, answer) ==
    /\ engine = "ts"
    /\ passes[p].pc = "send"
    /\ LET entity == passes[p].entity
       IN  IF AlreadySynced(entity)
           THEN /\ passes' = Advance(p, SyncResult(entity.id, TRUE, entity.remoteId, NoError))
                /\ UNCHANGED accepted
           ELSE /\ answer \in Responses
                /\ passes' = [passes EXCEPT ![p].entity = Sent(entity),
                                            ![p].response = answer,
                                            ![p].pc = "write"]
                /\ accepted' = [accepted EXCEPT ![entity.id] = @ \/ answer.kind = "ok"]
    /\ UNCHANGED << engine, stats, records, now, dbReady, net, previouslyConnected,
                    isSyncing, workState >>

\* newStatus without the isPermanent test: every error ends the record.
NewStatusFailed(error) == FAILED

\* syncRecord's catch block: "Update sync status based on error type"
NewStatus(error) == IF isPermanentError(error) THEN FAILED ELSE PENDING

\* The error syncRecord's catch block sees: createPost throws an ApiError,
\* db.updateRecord a plain Error.
UpdateFailed == ApiError("none", "Failed to update record")

\* syncRecord after the answer: the record is updated with the result. dbOk:
\* the first store write works; dbOk2: so does the catch block's write after
\* a failed updateRecord. An error thrown by the catch block's write ends the
\* pass in syncPendingRecords' catch block.
StepWrite(p, dbOk, dbOk2) ==
    /\ engine = "ts"
    /\ passes[p].pc = "write"
    /\ LET entity == passes[p].entity
           response == passes[p].response
           error == IF response.kind = "ok" THEN UpdateFailed
                    ELSE parseAxiosError(response.error)
       IN  IF response.kind = "ok" /\ dbOk
           THEN /\ records' = updateRecord(mergePostResponse(entity, response))
                /\ passes' = Advance(p, SyncResult(entity.id, TRUE, response.id, NoError))
                /\ UNCHANGED isSyncing
           ELSE IF (response.kind = "ok" /\ dbOk2) \/ (response.kind = "error" /\ dbOk)
           THEN /\ records' = updateSyncStatus(entity.id, NewStatus(error), Null, error.message)
                /\ passes' = Advance(p, SyncResult(entity.id, FALSE, Null, error.message))
                /\ UNCHANGED isSyncing
           ELSE /\ passes' = [passes EXCEPT ![p] = Idle]
                /\ isSyncing' = Release(p)
                /\ UNCHANGED records
    /\ UNCHANGED << engine, stats, now, dbReady, net, previouslyConnected, workState,
                    accepted >>

\* syncPendingRecords returns its results; triggerSync's finally block runs.
PassFinish(p) ==
    /\ engine = "ts"
    /\ passes[p].pc = "fetch"
    /\ passes[p].queue = << >>
    /\ passes' = [passes EXCEPT ![p] = Idle]
    /\ isSyncing' = Release(p)
    /\ UNCHANGED << engine, stats, records, now, dbReady, net, previouslyConnected,
                    workState, accepted >>

\* ---------------------------------------------------------------- process
\* The process is killed: every task and every in-memory flag is gone, the
\* store and WorkManager's queue stay.
Crash ==
    /\ dbReady
    /\ dbReady' = FALSE
    /\ passes' = [p \in Slots |-> Idle]
    /\ isSyncing' = FALSE
    /\ previouslyConnected' = FALSE
    /\ workState' = IF workState = "running" THEN "enqueued" ELSE workState
    /\ UNCHANGED << engine, stats, records, now, net, accepted >>

\* initDatabase at the start of the process: opens the store, creates the
\* table if it is missing.
initDatabase ==
    /\ engine = "ts"
    /\ ~dbReady
    /\ dbReady' = TRUE
    /\ UNCHANGED << engine, stats, records, now, net, previouslyConnected, isSyncing,
                    passes, workState, accepted >>

\* Time passes.
Tick ==
    /\ now < MaxTime
    /\ now' = now + 1
    /\ UNCHANGED << engine, stats, records, dbReady, net, previouslyConnected,
                    isSyncing, passes, workState, accepted >>

\* ----------------------------------------------------------- engine "kt"
\* updateSyncStatus writing the error column only when an error is given.
KtUpdateSyncStatusErrorKept(id, status, timestamp, remoteId, error) ==
    [records EXCEPT ![id] =
        [@ EXCEPT !.syncStatus = status, !.remoteId = remoteId,
                  !.lastSyncAttempt = timestamp,
                  !.syncError = IF error = NoError THEN @ ELSE error]]

\* RecordDao.updateSyncStatus: remoteId and error default to null.
KtUpdateSyncStatus(id, status, timestamp, remoteId, error) ==
    [records EXCEPT ![id] =
        [@ EXCEPT !.syncStatus = status, !.remoteId = remoteId,
                  !.lastSyncAttempt = timestamp, !.syncError = error]]

\* RecordDao.getRecordsByStatus: no ORDER BY, the rows come in table order.
KtGetRecordsByStatus(status) == IdsWithStatus(Len(records), status)

\* isPermanent with the else branch of the when taken as permanent.
KtIsPermanentElse(e) == ~e.axios \/ (e.response /\ e.status >= 400 /\ e.status <= 499)

\* RecordRepositoryImpl.syncRecord's catch block: is HttpException -> code in 400..499
KtIsPermanent(e) == e.response /\ e.status >= 400 /\ e.status <= 499

KtNextStatus(e) == IF KtIsPermanent(e) THEN FAILED ELSE PENDING

\* e.message of what syncRecord catches
KtMessage(e) ==
    IF e.response THEN StatusMessage("http", e.status)
    ELSE IF e.code = "ECONNABORTED" THEN "Request timeout"
    ELSE IF e.axios THEN "Unable to resolve host"
    ELSE "Unknown error"

\* A store write that throws, as syncRecord's catch block sees it.
KtStoreError == NotAxios

\* The one worker task of WorkManager's unique work.
Worker == 1

\* SyncRecordsUseCase.invoke: enqueueUniqueWork(MANUAL_SYNC_WORK, REPLACE):
\* a running worker is cancelled where it is suspended, the new work waits
\* for its network constraint.
SyncRecordsUseCase ==
    /\ workState' = "enqueued"
    /\ passes' = [passes EXCEPT ![Worker] = Idle]

\* RecordViewModel.triggerSync
KtTriggerSync ==
    /\ engine = "kt" /\ dbReady
    /\ SyncRecordsUseCase
    /\ UNCHANGED << engine, stats, records, now, dbReady, net, previouslyConnected,
                    isSyncing, accepted >>

\* RecordViewModel.addRecord: CreateRecordUseCase, RecordRepositoryImpl.createRecord
\* and, when neither threw, SyncRecordsUseCase.
KtAddRecord(title, body, dbOk) ==
    /\ engine = "kt" /\ dbReady
    /\ Len(records) < MaxRecords
    /\ IF ~IsBlank(title) /\ dbOk
       THEN /\ records' = insertRecord(NewEntity(Len(records) + 1, title, body))
            /\ SyncRecordsUseCase
       ELSE UNCHANGED << records, workState, passes >>
    /\ UNCHANGED << engine, stats, now, dbReady, net, previouslyConnected, isSyncing,
                    accepted >>

\* SyncWorker.doWork starts once the network constraint holds: it reads the
\* PENDING records and syncs them one by one.
KtWorkerStart ==
    /\ engine = "kt" /\ dbReady
    /\ workState = "enqueued"
    /\ net.isConnected
    /\ workState' = "running"
    /\ passes' = [passes EXCEPT ![Worker] = Task("fetch", KtGetRecordsByStatus(PENDING))]
    /\ UNCHANGED << engine, stats, records, now, dbReady, net, previouslyConnected,
                    isSyncing, accepted >>

\* syncRecord: recordDao.getRecordById
KtStepFetch(p) ==
    /\ engine = "kt"
    /\ passes[p].pc = "fetch"
    /\ passes[p].queue # << >>
    /\ passes' = [passes EXCEPT ![p].entity = records[Head(passes[p].queue)],
                                ![p].pc = "mark"]
    /\ UNCHANGED << engine, stats, records, now, dbReady, net, previouslyConnected,
                    isSyncing, workState, accepted >>

\* syncRecord's catch block: the status by the error, the message stored.
\* dbOk: the write works; if it throws, the record is left as it is.
KtCatch(id, e, dbOk) ==
    IF dbOk
    THEN KtUpdateSyncStatus(id, KtNextStatus(e), now, Null, KtMessage(e))
    ELSE records

\* syncRecord: the SYNCED check, then the SYNCING write. Its Result<Unit>
\* carries no remote id.
KtStepMark(p, dbOk, dbOk2) ==
    /\ engine = "kt"
    /\ passes[p].pc = "mark"
    /\ LET record == passes[p].entity
       IN  IF record.syncStatus = SYNCED
           THEN /\ passes' = Advance(p, SyncResult(record.id, TRUE, Null, NoError))
                /\ UNCHANGED records
           ELSE IF dbOk
           THEN /\ records' = KtUpdateSyncStatus(record.id, SYNCING, now, Null, NoError)
                /\ passes' = [passes EXCEPT ![p].entity = [id |-> record.id],
                                            ![p].pc = "send"]
           ELSE /\ records' = KtCatch(record.id, KtStoreError, dbOk2)
                /\ passes' = Advance(p, SyncResult(record.id, FALSE, Null,
                                                   KtMessage(KtStoreError)))
    /\ UNCHANGED << engine, stats, now, dbReady, net, previouslyConnected, isSyncing,
                    workState, accepted >>

\* syncRecord: apiService.createPost and the remote's handling of it
KtStepSend(p, answer) ==
    /\ engine = "kt"
    /\ passes[p].pc = "send"
    /\ answer \in Responses
    /\ passes' = [passes EXCEPT ![p].response = answer, ![p].pc = "write"]
    /\ accepted' = [accepted EXCEPT ![passes[p].entity.id] = @ \/ answer.kind = "ok"]
    /\ UNCHANGED << engine, stats, records, now, dbReady, net, previouslyConnected,
                    isSyncing, workState >>

\* syncRecord after the answer: SYNCED with the remote id, or the catch block.
KtStepWrite(p, dbOk, dbOk2) ==
    /\ engine = "kt"
    /\ passes[p].pc = "write"
    /\ LET record == passes[p].entity
           response == passes[p].response
       IN  IF response.kind = "ok" /\ dbOk
           THEN /\ records' = KtUpdateSyncStatus(record.id, SYNCED, now, response.id, NoError)
                /\ passes' = Advance(p, SyncResult(record.id, TRUE, Null, NoError))
           ELSE IF response.kind = "ok"
           THEN /\ records' = KtCatch(record.id, KtStoreError, dbOk2)
                /\ passes' = Advance(p, SyncResult(record.id, FALSE, Null,
                                                   KtMessage(KtStoreError)))
           ELSE /\ records' = KtCatch(record.id, response.error, dbOk)
                /\ passes' = Advance(p, SyncResult(record.id, FALSE, Null,
                                                   KtMessage(response.error)))
    /\ UNCHANGED << engine, stats, now, dbReady, net, previouslyConnected, isSyncing,
                    workState, accepted >>

\* SyncWorker.doWork returns.
KtWorkerFinish(p) ==
    /\ engine = "kt"
    /\ passes[p].pc = "fetch"
    /\ passes[p].queue = << >>
    /\ passes' = [passes EXCEPT ![p] = Idle]
    /\ workState' = "none"
    /\ UNCHANGED << engine, stats, records, now, dbReady, net, previouslyConnected,
                    isSyncing, accepted >>

\* DatabaseModule.provideAppDatabase at the start of the process: builds the
\* Room database.
provideAppDatabase ==
    /\ engine = "kt"
    /\ ~dbReady
    /\ dbReady' = TRUE
    /\ UNCHANGED << engine, stats, records, now, net, previouslyConnected, isSyncing,
                    passes, workState, accepted >>

\* The network changes.
KtNetworkChange(state) ==
    /\ engine = "kt"
    /\ net' = state
    /\ UNCHANGED << engine, stats, records, now, dbReady, previouslyConnected,
                    isSyncing, passes, workState, accepted >>

\* ------------------------------------------------------------ getSyncStats
\* The queries of one call: getAllRecords().length and the three counts.
StatsQueries == {"total", "synced", "pending", "failed"}

\* No call of getSyncStats has been made.
NoStats ==
    [pc |-> "idle", todo |-> {}, total |-> 0, synced |-> 0, pending |-> 0,
     failed |-> 0]

\* The catch of getSyncStats: { total: 0, synced: 0, pending: 0, failed: 0 }
StatsZero ==
    [pc |-> "done", todo |-> {}, total |-> 0, synced |-> 0, pending |-> 0,
     failed |-> 0]

\* What the query returns on the store as it is now.
StatsQuery(query) ==
    CASE query = "total" -> Len(getAllRecords)
      [] query = "synced" -> getRecordCountByStatus(SYNCED)
      [] query = "pending" -> getRecordCountByStatus(PENDING)
      [] query = "failed" -> getRecordCountByStatus(FAILED)

\* The result with the answer of one query: the call returns with the last.
StatsAnswer(query, count) ==
    [[stats EXCEPT ![query] = count]
        EXCEPT !.todo = stats.todo \ {query},
               !.pc = IF stats.todo = {query} THEN "done" ELSE "reading"]

\* repository.getSyncStats is called: Promise.all starts the four queries.
getSyncStats ==
    /\ engine = "ts"
    /\ stats.pc \in {"idle", "done"}
    /\ stats' = [pc |-> "reading", todo |-> StatsQueries, total |-> 0,
                 synced |-> 0, pending |-> 0, failed |-> 0]
    /\ UNCHANGED << engine, records, now, dbReady, net, previouslyConnected,
                    isSyncing, passes, workState, accepted >>

\* One of the queries runs, in any order and between the store's other
\* statements: getDatabase throws without a store and getAllRecords rethrows,
\* which the catch of getSyncStats turns into zeros; getRecordCountByStatus
\* returns 0 when its query fails.
StatsRead(query, dbOk) ==
    /\ engine = "ts"
    /\ stats.pc = "reading"
    /\ query \in stats.todo
    /\ stats' = IF ~dbReady \/ (query = "total" /\ ~dbOk)
                THEN StatsZero
                ELSE StatsAnswer(query, IF dbOk THEN StatsQuery(query) ELSE 0)
    /\ UNCHANGED << engine, records, now, dbReady, net, previouslyConnected,
                    isSyncing, passes, workState, accepted >>

\* RecordRepositoryImpl.getSyncStats is called: a map of three counts.
KtGetSyncStats ==
    /\ engine = "kt" /\ dbReady
    /\ stats.pc \in {"idle", "done"}
    /\ stats' = [pc |-> "reading", todo |-> StatsQueries \ {"total"},
                 total |-> 0, synced |-> 0, pending |-> 0, failed |-> 0]
    /\ UNCHANGED << engine, records, now, dbReady, net, previouslyConnected,
                    isSyncing, passes, workState, accepted >>

\* The next recordDao.getCountByStatus of the map, in the order written; a
\* query that fails throws out of getSyncStats, which then has no result.
KtStatsRead(dbOk) ==
    /\ engine = "kt"
    /\ stats.pc = "reading"
    /\ LET query == IF "synced" \in stats.todo THEN "synced"
                    ELSE IF "pending" \in stats.todo THEN "pending"
                    ELSE "failed"
       IN  stats' = IF dbOk
                    THEN StatsAnswer(query,
                                     Len(IdsWithStatus(Len(records),
                                         CASE query = "synced" -> SYNCED
                                           [] query = "pending" -> PENDING
                                           [] query = "failed" -> FAILED)))
                    ELSE NoStats
    /\ UNCHANGED << engine, records, now, dbReady, net, previouslyConnected,
                    isSyncing, passes, workState, accepted >>

\* ------------------------------------------------------------ specification
Init ==
    /\ engine \in Engines
    /\ records = << >>
    /\ now = 1
    /\ dbReady = FALSE
    /\ net \in NetStates
    /\ previouslyConnected = FALSE
    /\ isSyncing = FALSE
    /\ passes = [p \in Slots |-> Idle]
    /\ workState = "none"
    /\ accepted = [id \in Ids |-> FALSE]
    /\ stats = NoStats

Next ==
    \/ \E title \in TitleInputs, body \in BodyInputs, dbOk \in BOOLEAN :
           createRecord(title, body, dbOk)
    \/ syncRecords
    \/ retryFailedSyncs
    \/ triggerSyncContext
    \/ \E nextAppState \in {"active", "background"} : handleAppStateChange(nextAppState)
    \/ \E state \in NetStates : setupNetworkListener(state)
    \/ BACKGROUND_SYNC_TASK
    \/ \E p \in Slots, dbOk \in BOOLEAN : RequeueStep(p, dbOk)
    \/ \E p \in Slots : SelectPending(p)
    \/ \E p \in Slots : StepFetch(p)
    \/ \E p \in Slots, answer \in Answers : StepSend(p, answer)
    \/ \E p \in Slots, dbOk \in BOOLEAN, dbOk2 \in BOOLEAN : StepWrite(p, dbOk, dbOk2)
    \/ \E p \in Slots : PassFinish(p)
    \/ Crash
    \/ initDatabase
    \/ KtTriggerSync
    \/ \E title \in TitleInputs, body \in BodyInputs, dbOk \in BOOLEAN :
           KtAddRecord(title, body, dbOk)
    \/ KtWorkerStart
    \/ KtStepFetch(Worker)
    \/ \E dbOk \in BOOLEAN, dbOk2 \in BOOLEAN : KtStepMark(Worker, dbOk, dbOk2)
    \/ \E answer \in Answers : KtStepSend(Worker, answer)
    \/ \E dbOk \in BOOLEAN, dbOk2 \in BOOLEAN : KtStepWrite(Worker, dbOk, dbOk2)
    \/ KtWorkerFinish(Worker)
    \/ provideAppDatabase
    \/ \E state \in NetStates : KtNetworkChange(state)

Spec == Init /\ [][Next]_vars

\* The same with the clock running.
NextClock == Next \/ Tick

SpecClock == Init /\ [][NextClock]_vars

\* -------------------------------------------------------------- properties
\* The pass in slot p gets the remote's answer to the POST of its record.
SendStep(p) == passes[p].pc = "send" /\ passes'[p].pc = "write"

\* The answer is a 2xx: the remote has stored a post of the record.
AcceptStep(p) == SendStep(p) /\ passes'[p].response.kind = "ok"

\* The pass in slot p has read its record and decides whether to send it.
Decides(p) == passes[p].pc = IF engine = "ts" THEN "send" ELSE "mark"

\* syncRecord returns in this step of the pass in slot p.
Returns(p) == Len(passes'[p].results) = Len(passes[p].results) + 1

\* The SyncResult it returns.
Returned(p) == passes'[p].results[Len(passes'[p].results)]

\* C1: single-flight -- at most one sync pass is active at any time, whatever
\* trigger asks for a pass while one is in progress.
SingleFlight == Cardinality(ActivePasses) <= 1

\* C2: no duplication -- the remote accepts each record id at most once: no
\* send of a record is accepted after a send of that record was accepted.
NoDuplication ==
    [][\A p \in Slots : AcceptStep(p) => ~accepted[passes[p].entity.id]]_vars

\* C3: idempotent accept -- no send is issued for a record whose remoteId is set
\* in the store, and a step that finds its record carrying a remoteId returns
\* success with that remoteId without contacting the remote.
IdempotentAccept ==
    [][\A p \in Slots :
          /\ SendStep(p) => records[passes[p].entity.id].remoteId = Null
          /\ ( /\ Decides(p)
               /\ passes[p].entity.remoteId # Null
               /\ passes'[p].pc \notin {"idle", passes[p].pc} )
             => /\ Returns(p)
                /\ Returned(p) = SyncResult(passes[p].entity.id, TRUE,
                                            passes[p].entity.remoteId, NoError)
                /\ accepted' = accepted
                /\ records' = records]_vars

\* The pass in slot p is in the middle of an attempt for record r.
Attempting(p, r) ==
    passes[p].pc \in {"mark", "send", "write"} /\ passes[p].entity.id = r

\* C4: eventual delivery -- no record rests in a non-terminal status that no
\* later pass selects: passes select PENDING records only, so a record that is
\* SYNCING is in the hands of a pass in flight, which will settle it.
EventualDelivery ==
    \A r \in StoredIds :
        records[r].syncStatus = SYNCING => \E p \in Slots : Attempting(p, r)

\* C5: recovery -- the step that opens the store at the start of the process
\* leaves no record SYNCING (each is reset to PENDING), so no operation served
\* after a restart meets a SYNCING record of the previous run.
RecoveryInvariant ==
    [][(~dbReady /\ dbReady')
          => \A r \in StoredIds : records'[r].syncStatus # SYNCING]_vars

\* C6: SYNCED is sticky -- a SYNCED record keeps its status and its remoteId in
\* every step, whatever pass, retry or failure result comes later.
SyncedSticky ==
    [][\A r \in StoredIds :
          records[r].syncStatus = SYNCED
             => /\ records'[r].syncStatus = SYNCED
                /\ records'[r].remoteId = records[r].remoteId]_vars

\* retryFailedSyncs marks record r PENDING in this step.
Requeues(r) ==
    /\ \E p \in Slots : passes[p].pc = "requeue" /\ Head(passes[p].queue) = r
    /\ records'[r].syncStatus = PENDING

\* C7: FAILED is sticky -- a FAILED record changes its status only when
\* retryFailedSyncs requeues it, and no pass sends it.
FailedSticky ==
    [][\A r \in StoredIds :
          records[r].syncStatus = FAILED
             => /\ records'[r].syncStatus = FAILED \/ Requeues(r)
                /\ \A p \in Slots : SendStep(p) => passes[p].entity.id # r]_vars

\* C8: no data loss -- no step removes a record or changes the id, title, body
\* or createdAt of a stored record.
NoDataLoss ==
    [][/\ Len(records') >= Len(records)
       /\ \A r \in StoredIds :
             /\ records'[r].id = records[r].id
             /\ records'[r].title = records[r].title
             /\ records'[r].body = records[r].body
             /\ records'[r].createdAt = records[r].createdAt]_vars

\* Records were created, one was synced and one has failed, and the process
\* has been killed.
NoDataLossWitness ==
    /\ ~dbReady
    /\ Len(records) >= 2
    /\ \E r \in StoredIds : records[r].syncStatus = SYNCED
    /\ \E r \in StoredIds : records[r].syncStatus \in {PENDING, FAILED}
                            /\ records[r].syncError # NoError

\* C9: a record has a remoteId if and only if its syncStatus is SYNCED.
RemoteIdIffSynced ==
    \A r \in StoredIds :
        records[r].remoteId # Null <=> records[r].syncStatus = SYNCED

\* One record is SYNCED with its remoteId, another has been attempted and is
\* not SYNCED.
RemoteIdIffSyncedWitness ==
    /\ \E r \in StoredIds : records[r].syncStatus = SYNCED
                            /\ records[r].remoteId \in RemoteIds
    /\ \E r \in StoredIds : records[r].syncStatus # SYNCED
                            /\ records[r].syncError # NoError

\* C10: when the step that handles an accepted send returns success, the
\* record is stored SYNCED with the remoteId of the answer and no syncError,
\* whatever syncError it carried.
AcceptedPersisted ==
    [][\A p \in Slots :
          ( /\ passes[p].pc = "write"
            /\ passes[p].response.kind = "ok"
            /\ Returns(p)
            /\ Returned(p).success )
          => LET stored == records'[passes[p].entity.id]
             IN  /\ stored.syncStatus = SYNCED
                 /\ stored.remoteId = passes[p].response.id
                 /\ stored.syncError = NoError]_vars

\* A pass has stored record r as SYNCED after another pass had stored a
\* transient failure of r: the first pass's result for r is a failure that
\* leaves r PENDING, and r is SYNCED with the remoteId of the other's result.
AcceptedPersistedWitness ==
    \E r \in StoredIds, p \in Slots, q \in Slots :
        /\ \E i \in DOMAIN passes[p].results :
              LET failure == passes[p].results[i]
              IN  /\ failure.recordId = r /\ ~failure.success
                  /\ failure.error = "Request timeout"
        /\ \E j \in DOMAIN passes[q].results :
              passes[q].results[j] =
                  SyncResult(r, TRUE, records[r].remoteId, NoError)
        /\ records[r].syncStatus = SYNCED
        /\ records[r].syncError = NoError

\* The pass in slot p handles the failure of its send in this step: the
\* answer it holds is an error and syncRecord returns.
FailureStep(p) ==
    passes[p].pc = "write" /\ passes[p].response.kind = "error" /\ Returns(p)

\* The remote rejected the request: a response with a status 400..499.
Rejected(error) == error.response /\ error.status \in 400..499

\* The failure description the engine keeps of an error of the send.
Description(error) ==
    IF engine = "ts" THEN parseAxiosError(error).message ELSE KtMessage(error)

\* C11: a send rejected with a 4xx is persisted as FAILED with the failure
\* description and no remoteId (or the store write threw and nothing was
\* written), and a record stored as FAILED is not sent by any pass.
RejectedPersisted ==
    [][/\ \A p \in Slots :
             (FailureStep(p) /\ Rejected(passes[p].response.error))
             => LET stored == records'[passes[p].entity.id]
                IN  \/ /\ stored.syncStatus = FAILED
                       /\ stored.syncError = Description(passes[p].response.error)
                       /\ stored.syncError # NoError
                       /\ stored.remoteId = Null
                    \/ records' = records
       /\ \A r \in StoredIds, p \in Slots :
             (records[r].syncStatus = FAILED /\ SendStep(p))
             => passes[p].entity.id # r]_vars

\* A pass starts in slot p in this step: it reads the PENDING records.
StartsPass(p) == passes[p].pc \in {"idle", "select"} /\ passes'[p].pc = "fetch"

\* The ids in a pass's queue.
Queued(queue) == { queue[i] : i \in DOMAIN queue }

\* C12: a send that fails with a timeout, no connection or a 5xx is persisted
\* as PENDING with the failure description and no remoteId (or the store write
\* threw and nothing was written), and every pass that starts selects every
\* PENDING record, the ones with a syncError included.
UnavailablePersisted ==
    [][/\ \A p \in Slots :
             (FailureStep(p) /\ ~Rejected(passes[p].response.error))
             => LET stored == records'[passes[p].entity.id]
                IN  \/ /\ stored.syncStatus = PENDING
                       /\ stored.syncError = Description(passes[p].response.error)
                       /\ stored.syncError # NoError
                       /\ stored.remoteId = Null
                    \/ records' = records
       /\ \A p \in Slots :
             StartsPass(p)
             => \A r \in StoredIds :
                   records[r].syncStatus = PENDING => r \in Queued(passes'[p].queue)]_vars

\* The worker of a later pass has read a record that is PENDING with the
\* description of an earlier failed send.
UnavailablePersistedWitness ==
    /\ engine = "kt"
    /\ passes[Worker].pc = "mark"
    /\ passes[Worker].entity.syncStatus = PENDING
    /\ passes[Worker].entity.syncError = "Request timeout"
    /\ passes[Worker].entity.remoteId = Null

\* A step of retryFailedSyncs' loop in slot p: one record is marked PENDING.
MarksPending(p) ==
    /\ passes[p].pc = "requeue"
    /\ passes'[p].pc \in {"requeue", "select"}
    /\ passes'[p] # passes[p]

\* C13: retryFailed -- each step of retryFailedSyncs' loop turns a record that
\* is FAILED into PENDING in the store and leaves every other record as it is,
\* so no SYNCED record is touched; the pass that follows the loop runs over
\* all the records that are PENDING then.
RetryFailed ==
    [][\A p \in Slots :
          /\ MarksPending(p)
             => LET r == Head(passes[p].queue)
                IN  /\ records[r].syncStatus = FAILED
                    /\ records'[r].syncStatus = PENDING
                    /\ \A q \in StoredIds \ {r} : records'[q] = records[q]
          /\ (passes[p].pc = "select" /\ passes'[p].pc = "fetch")
             => Queued(passes'[p].queue)
                  = { r \in StoredIds : records[r].syncStatus = PENDING }]_vars

\* The edges of the record state machine: attempt begins, Accepted, Rejected,
\* Unavailable or recovery, explicit requeue.
Edges ==
    { << PENDING, SYNCING >>, << SYNCING, SYNCED >>, << SYNCING, FAILED >>,
      << SYNCING, PENDING >>, << FAILED, PENDING >> }

\* C14: per-record state machine -- every change of a stored record's
\* syncStatus follows one of the five edges, and a send is issued only for a
\* record that is stored as SYNCING.
StateMachine ==
    [][/\ \A r \in StoredIds :
             records'[r].syncStatus # records[r].syncStatus
             => << records[r].syncStatus, records'[r].syncStatus >> \in Edges
       /\ \A p \in Slots :
             SendStep(p) => records[passes[p].entity.id].syncStatus = SYNCING]_vars

\* The engine with its automatic triggers only (app foreground, network
\* change, periodic task, WorkManager) and the clock running, while the store
\* holds at most one record: no pull-to-refresh, no retryFailedSyncs.
NextAutomatic ==
    \/ /\ records = << >>
       /\ \E title \in TitleInputs, body \in BodyInputs, dbOk \in BOOLEAN :
              createRecord(title, body, dbOk)
    \/ \E nextAppState \in {"active", "background"} :
           handleAppStateChange(nextAppState)
    \/ \E state \in NetStates : setupNetworkListener(state)
    \/ BACKGROUND_SYNC_TASK
    \/ \E p \in Slots : StepFetch(p)
    \/ \E p \in Slots, answer \in Answers : StepSend(p, answer)
    \/ \E p \in Slots, dbOk \in BOOLEAN, dbOk2 \in BOOLEAN : StepWrite(p, dbOk, dbOk2)
    \/ \E p \in Slots : PassFinish(p)
    \/ initDatabase
    \/ /\ records = << >>
       /\ \E title \in TitleInputs, body \in BodyInputs, dbOk \in BOOLEAN :
              KtAddRecord(title, body, dbOk)
    \/ KtWorkerStart
    \/ KtStepFetch(Worker)
    \/ \E dbOk \in BOOLEAN, dbOk2 \in BOOLEAN : KtStepMark(Worker, dbOk, dbOk2)
    \/ \E answer \in Answers : KtStepSend(Worker, answer)
    \/ \E dbOk \in BOOLEAN, dbOk2 \in BOOLEAN : KtStepWrite(Worker, dbOk, dbOk2)
    \/ KtWorkerFinish(Worker)
    \/ provideAppDatabase
    \/ \E state \in NetStates : KtNetworkChange(state)
    \/ Tick

SpecAutomatic == Init /\ [][NextAutomatic]_vars

\* The record has met a transient failure and waits for its next attempt.
AwaitsRetry(r) ==
    records[r].syncStatus = PENDING /\ records[r].syncError # NoError

\* C15: retry policy -- a record whose last attempt met a transient failure is
\* sent again by an automatic pass only after the backoff delay, which is at
\* least one second (one Tick) after that attempt; a rejected record is given
\* up (stored as FAILED).
Backoff ==
    [][\A p \in Slots :
          /\ SendStep(p) /\ AwaitsRetry(passes[p].entity.id)
             => now >= records[passes[p].entity.id].lastSyncAttempt + 1
          /\ (FailureStep(p) /\ Rejected(passes[p].response.error))
             => \/ records'[passes[p].entity.id].syncStatus = FAILED
                \/ records' = records]_vars

\* The content the specification's bounds exclude: a blank title or body, a
\* title of more than TITLE_MAX characters, a body of more than BODY_MAX.
OutOfBounds(title, body) ==
    \/ IsBlank(title) \/ Length(title) > TITLE_MAX
    \/ IsBlank(body) \/ Length(body) > BODY_MAX

\* C16: validation -- createRecord with a blank or over-long title or body
\* performs no store write, so no stored record has such content.
ValidationRejects ==
    \A r \in StoredIds : ~OutOfBounds(records[r].title, records[r].body)

\* C17: create -- a createRecord that succeeds adds exactly one record: its id
\* is used by no record stored before, it is PENDING with no remoteId, no
\* lastSyncAttempt and no syncError, the records stored before are as they
\* were, and the step contacts the remote not at all, whatever the network is.
CreateAddsPending ==
    [][Len(records') # Len(records)
       => /\ Len(records') = Len(records) + 1
          /\ LET new == records'[Len(records')]
             IN  /\ \A r \in StoredIds : records[r].id # new.id /\ records'[r] = records[r]
                 /\ new.syncStatus = PENDING
                 /\ new.remoteId = Null
                 /\ new.lastSyncAttempt = Null
                 /\ new.syncError = NoError
          /\ accepted' = accepted
          /\ \A p \in Slots : ~SendStep(p)]_vars

\* Records were created while the device had no network, and none of them has
\* been attempted.
CreateAddsPendingWitness ==
    /\ ~net.isConnected
    /\ Len(records) = MaxRecords
    /\ \A r \in StoredIds :
          /\ records[r].syncStatus = PENDING
          /\ records[r].lastSyncAttempt = Null
          /\ ~accepted[r]

\* The engine with one pass at a time, started by hand, whose sends meet every
\* failure of Failures.
NextFailures ==
    \/ \E title \in TitleInputs, body \in BodyInputs, dbOk \in BOOLEAN :
           createRecord(title, body, dbOk)
    \/ syncRecords
    \/ \E p \in Slots : StepFetch(p)
    \/ \E p \in Slots, answer \in Responses : StepSend(p, answer)
    \/ \E p \in Slots, dbOk \in BOOLEAN, dbOk2 \in BOOLEAN : StepWrite(p, dbOk, dbOk2)
    \/ \E p \in Slots : PassFinish(p)
    \/ initDatabase
    \/ KtTriggerSync
    \/ \E title \in TitleInputs, body \in BodyInputs, dbOk \in BOOLEAN :
           KtAddRecord(title, body, dbOk)
    \/ KtWorkerStart
    \/ KtStepFetch(Worker)
    \/ \E dbOk \in BOOLEAN, dbOk2 \in BOOLEAN : KtStepMark(Worker, dbOk, dbOk2)
    \/ \E answer \in Responses : KtStepSend(Worker, answer)
    \/ \E dbOk \in BOOLEAN, dbOk2 \in BOOLEAN : KtStepWrite(Worker, dbOk, dbOk2)
    \/ KtWorkerFinish(Worker)
    \/ provideAppDatabase

SpecFailures == Init /\ [][NextFailures]_vars

Unclassified(error) ==
    /\ ~(error.axios /\ ~error.response)
    /\ ~(error.response /\ error.status >= 400)

EndsAtWrite(p) ==
    /\ passes[p].pc = "write"
    /\ passes'[p].pc = "idle"
    /\ dbReady'
    /\ workState' = workState

\* C20: a store-write failure is fatal to the record's step only -- a pass
\* never ends at the step that persists a record's result while records it
\* selected at its start are still to be attempted.
StoreFailureLocal ==
    [][\A p \in Slots : EndsAtWrite(p) => Tail(passes[p].queue) = << >>]_vars

\* C21: remote errors stay inside the pass -- once the failure of a send is
\* persisted, syncRecord returns a failed SyncResult for the record and the
\* pass goes on with the records still queued; a pass returns its results
\* only when every record it selected has a result.
RemoteErrorsContained ==
    [][\A p \in Slots :
          /\ (/\ passes[p].pc = "write"
              /\ passes[p].response.kind = "error"
              /\ passes'[p] # passes[p]
              /\ Len(records') = Len(records)
              /\ records' # records)
             => /\ passes'[p].pc = "fetch"
                /\ passes'[p].queue = Tail(passes[p].queue)
                /\ Returns(p)
                /\ Returned(p) = SyncResult(passes[p].entity.id, FALSE, Null,
                                            Description(passes[p].response.error))
          /\ (passes[p].pc = "fetch" /\ passes'[p].pc = "idle" /\ dbReady'
                /\ workState' # "enqueued")
             => passes[p].queue = << >>]_vars

\* A pass has a failed result for its first record and a successful one for
\* its second, and is about to return.
RemoteErrorsContainedWitness ==
    \E p \in Slots :
        /\ passes[p].pc = "fetch"
        /\ passes[p].queue = << >>
        /\ Len(passes[p].results) = MaxRecords
        /\ ~passes[p].results[1].success
        /\ passes[p].results[1].error \in {"Request timeout", "Client error: 400",
                                           "Request failed with status code"}
        /\ passes[p].results[2].success

\* C22: pass aggregate -- every record a pass selected gets exactly one
\* result, and the results tell the three outcomes apart: a result with the
\* success flag stands for a record now SYNCED, one without it for a record
\* that failed permanently and is now FAILED, the records still PENDING being
\* counted apart from both.
PassAggregate ==
    [][\A p \in Slots :
          Returns(p)
          => /\ Len(passes'[p].results) + Len(passes'[p].queue)
                  = Len(passes[p].results) + Len(passes[p].queue)
             /\ Returned(p).success
                  => records'[Returned(p).recordId].syncStatus = SYNCED
             /\ ~Returned(p).success
                  => records'[Returned(p).recordId].syncStatus = FAILED]_vars

\* C23: syncError -- in every store state a SYNCED record has no syncError,
\* and a record with a syncError is PENDING or FAILED and has been attempted.
ErrorOnlyAfterFailure ==
    \A r \in StoredIds :
        /\ records[r].syncStatus = SYNCED => records[r].syncError = NoError
        /\ records[r].syncError # NoError
           => /\ records[r].syncStatus \in {PENDING, FAILED}
              /\ records[r].lastSyncAttempt # Null

\* A record that had met a failure is SYNCED with its error cleared, next to a
\* record that is FAILED with its error.
ErrorOnlyAfterFailureWitness ==
    /\ Len(records) = MaxRecords
    /\ \E p \in Slots :
          /\ Len(passes[p].results) = 1
          /\ passes[p].results[1].recordId = 1
          /\ passes[p].results[1].success
    /\ \E p \in Slots :
          /\ passes[p].results # << >>
          /\ passes[p].results[1].recordId = 1
          /\ ~passes[p].results[1].success
    /\ records[1].syncStatus = SYNCED
    /\ records[1].syncError = NoError
    /\ records[2].syncStatus = FAILED
    /\ records[2].syncError # NoError

\* The network listener sees the network come online: its last event reported
\* no connection (or there was none yet), this one reports a connection.
ComesOnline == ~previouslyConnected /\ previouslyConnected'

\* A pass starts in a free slot, over the records that are PENDING.
PassRequested ==
    \E p \in Slots :
        /\ passes[p].pc = "idle"
        /\ passes' = [passes EXCEPT ![p] = Task("fetch", getRecordsByStatus(PENDING))]

\* C24: connectivity trigger -- the network listener requests a pass on an
\* event that reports the network online after an event that did not (or as
\* the first event), and on no other network event.
ConnectivityTrigger ==
    [][/\ (ComesOnline /\ dbReady) => PassRequested
       /\ ((net' # net \/ previouslyConnected' # previouslyConnected)
             /\ ~ComesOnline /\ dbReady')
          => passes' = passes]_vars

\* The network came online and the listener's pass is at its first record.
ConnectivityTriggerWitness ==
    /\ engine = "ts"
    /\ previouslyConnected
    /\ IsConnected(net)
    /\ ~isSyncing
    /\ \E p \in Slots \ {Provider} :
          /\ passes[p].pc = "fetch"
          /\ Len(passes[p].queue) = MaxRecords
          /\ passes[p].results = << >>

\* The store holds a record that is PENDING or FAILED.
HasUnsynced ==
    \E r \in StoredIds : records[r].syncStatus \in {PENDING, FAILED}

\* The application becomes active and SyncProvider starts its pass.
ForegroundPass ==
    /\ handleAppStateChange("active")
    /\ passes'[Provider].pc = "fetch"

\* C25: foreground trigger -- with the automatic triggers only, the pass of
\* SyncProvider starts only while the store holds a PENDING or FAILED record
\* (and the network is available), and whenever the store holds one, the
\* network is available and no pass of SyncProvider runs, the application
\* becoming active starts it.
ForegroundTrigger ==
    /\ [][(engine = "ts" /\ passes[Provider].pc = "idle"
             /\ passes'[Provider].pc # "idle")
          => /\ HasUnsynced
             /\ NetAvailable(net)
             /\ isSyncing'
             /\ passes'[Provider] = Task("fetch", getRecordsByStatus(PENDING))]_vars
    /\ []((/\ engine = "ts" /\ dbReady /\ NetAvailable(net)
           /\ passes[Provider].pc = "idle" /\ HasUnsynced)
          => ENABLED ForegroundPass)

\* SyncProvider's pass was started while the only record is FAILED: it has
\* nothing to send.
ForegroundTriggerWitness ==
    /\ Len(records) = 1
    /\ records[1].syncStatus = FAILED
    /\ passes[Provider].pc = "fetch"
    /\ passes[Provider].queue = << >>
    /\ passes[Provider].results = << >>
    /\ isSyncing

\* The pass in slot p has read its record and goes on to send it.
GoesToSend(p) ==
    /\ Decides(p)
    /\ passes'[p].pc = IF engine = "ts" THEN "write" ELSE "send"

\* C26: pass selection -- a pass starts with the records that are PENDING
\* when it reads the store, has each of them at most once in its queue, and
\* goes on to send no record that it reads as SYNCED or FAILED when the
\* record's step starts.
PassSendsPending ==
    [][\A p \in Slots :
          /\ StartsPass(p)
             => /\ Queued(passes'[p].queue)
                     = { r \in StoredIds : records[r].syncStatus = PENDING }
                /\ Len(passes'[p].queue) = Cardinality(Queued(passes'[p].queue))
          /\ GoesToSend(p)
             => passes[p].entity.syncStatus \notin {SYNCED, FAILED}]_vars

\* The pass in slot p has issued the POST of its record and awaits the answer.
InFlight(p) ==
    /\ passes[p].pc = "send"
    /\ IF engine = "ts" THEN ~AlreadySynced(passes[p].entity) ELSE TRUE

\* C27: no parallel sends -- at every moment at most one POST is in flight in
\* the whole engine, so never two for the same record.
SequentialSends ==
    /\ Cardinality({ p \in Slots : InFlight(p) }) <= 1
    /\ \A p, q \in Slots :
          (InFlight(p) /\ InFlight(q) /\ passes[p].entity.id = passes[q].entity.id)
          => p = q

\* C28: no pre-emption -- a sync request made while a pass is executing
\* neither cancels nor replaces that pass (only the end of the process stops
\* it), so no pass stops between the SYNCING write and the result of a
\* record and leaves the record SYNCING.
NoPreemption ==
    [][/\ (workState = "running" /\ workState' = "enqueued") => ~dbReady'
       /\ \A p \in Slots :
             (passes[p].pc \in {"send", "write"} /\ passes'[p].pc = "idle" /\ dbReady')
             => records'[passes[p].entity.id].syncStatus # SYNCING]_vars

\* The engine with every trigger and the clock running, while the store
\* holds at most one record.
NextTimed ==
    \/ /\ records = << >>
       /\ \E title \in TitleInputs, body \in BodyInputs, dbOk \in BOOLEAN :
              createRecord(title, body, dbOk)
    \/ syncRecords
    \/ retryFailedSyncs
    \/ triggerSyncContext
    \/ \E nextAppState \in {"active", "background"} :
           handleAppStateChange(nextAppState)
    \/ \E state \in NetStates : setupNetworkListener(state)
    \/ BACKGROUND_SYNC_TASK
    \/ \E p \in Slots, dbOk \in BOOLEAN : RequeueStep(p, dbOk)
    \/ \E p \in Slots : SelectPending(p)
    \/ \E p \in Slots : StepFetch(p)
    \/ \E p \in Slots, answer \in Answers : StepSend(p, answer)
    \/ \E p \in Slots, dbOk \in BOOLEAN, dbOk2 \in BOOLEAN : StepWrite(p, dbOk, dbOk2)
    \/ \E p \in Slots : PassFinish(p)
    \/ Crash
    \/ initDatabase
    \/ KtTriggerSync
    \/ /\ records = << >>
       /\ \E title \in TitleInputs, body \in BodyInputs, dbOk \in BOOLEAN :
              KtAddRecord(title, body, dbOk)
    \/ KtWorkerStart
    \/ KtStepFetch(Worker)
    \/ \E dbOk \in BOOLEAN, dbOk2 \in BOOLEAN : KtStepMark(Worker, dbOk, dbOk2)
    \/ \E answer \in Answers : KtStepSend(Worker, answer)
    \/ \E dbOk \in BOOLEAN, dbOk2 \in BOOLEAN : KtStepWrite(Worker, dbOk, dbOk2)
    \/ KtWorkerFinish(Worker)
    \/ provideAppDatabase
    \/ \E state \in NetStates : KtNetworkChange(state)
    \/ Tick

SpecTimed == Init /\ [][NextTimed]_vars

\* A step of an attempt for record r: the pass that holds r persists the
\* beginning or the result of its attempt.
AttemptStep(r) ==
    \E p \in Slots :
        /\ passes[p].pc \in {"mark", "write"}
        /\ passes[p].entity.id = r
        /\ passes'[p] # passes[p]

\* C29: lastSyncAttempt -- it is absent when the record is created, changes
\* only in a step of an attempt for the record, which sets it to the time of
\* that attempt, and so never decreases and always holds the time of the most
\* recent attempt.
LastAttemptTime ==
    [][/\ Len(records') > Len(records)
          => records'[Len(records')].lastSyncAttempt = Null
       /\ \A r \in StoredIds :
             /\ records'[r].lastSyncAttempt >= records[r].lastSyncAttempt
             /\ records'[r].lastSyncAttempt # records[r].lastSyncAttempt
                => /\ AttemptStep(r)
                   /\ records'[r].lastSyncAttempt = now]_vars

\* The network is reported not connected, or the internet not reachable.
Offline(state) == ~state.isConnected \/ state.isInternetReachable # "true"

Quiescent == \A p \in Slots : passes[p].pc = "idle"

\* C30: sync requires connectivity -- under the automatic triggers a pass of
\* the TypeScript engine starts only in a step that leaves the network
\* connected and the internet reachable, and a trigger that fires while no
\* pass runs and the network is offline starts no pass, sends nothing and
\* changes no stored record.
RequiresConnectivity ==
    [][/\ \A p \in Slots :
             (engine = "ts" /\ passes[p].pc = "idle" /\ passes'[p].pc # "idle")
                => ~Offline(net')
       /\ (engine = "ts" /\ Quiescent /\ Offline(net'))
             => /\ passes' = passes
                /\ accepted' = accepted
                /\ Len(records') = Len(records) => records' = records]_vars

RequiresConnectivityWitness ==
    /\ engine = "ts" /\ dbReady
    /\ Quiescent
    /\ net.isConnected /\ Offline(net)
    /\ ~previouslyConnected
    /\ Len(records) = 1
    /\ records[1].syncStatus = PENDING
    /\ records[1].lastSyncAttempt = Null
    /\ ~accepted[1]
    /\ now > 1

\* The engines with getSyncStats called beside creation and the passes.
NextStats ==
    \/ \E title \in TitleInputs, body \in BodyInputs, dbOk \in BOOLEAN :
           createRecord(title, body, dbOk)
    \/ syncRecords
    \/ retryFailedSyncs
    \/ \E p \in Slots, dbOk \in BOOLEAN : RequeueStep(p, dbOk)
    \/ \E p \in Slots : SelectPending(p)
    \/ \E p \in Slots : StepFetch(p)
    \/ \E p \in Slots, answer \in Answers : StepSend(p, answer)
    \/ \E p \in Slots, dbOk \in BOOLEAN, dbOk2 \in BOOLEAN : StepWrite(p, dbOk, dbOk2)
    \/ \E p \in Slots : PassFinish(p)
    \/ initDatabase
    \/ getSyncStats
    \/ \E query \in StatsQueries, dbOk \in BOOLEAN : StatsRead(query, dbOk)
    \/ KtTriggerSync
    \/ \E title \in TitleInputs, body \in BodyInputs, dbOk \in BOOLEAN :
           KtAddRecord(title, body, dbOk)
    \/ KtWorkerStart
    \/ KtStepFetch(Worker)
    \/ \E dbOk \in BOOLEAN, dbOk2 \in BOOLEAN : KtStepMark(Worker, dbOk, dbOk2)
    \/ \E answer \in Answers : KtStepSend(Worker, answer)
    \/ \E dbOk \in BOOLEAN, dbOk2 \in BOOLEAN : KtStepWrite(Worker, dbOk, dbOk2)
    \/ KtWorkerFinish(Worker)
    \/ provideAppDatabase
    \/ KtGetSyncStats
    \/ \E dbOk \in BOOLEAN : KtStatsRead(dbOk)

SpecStats == Init /\ [][NextStats]_vars

\* The sync state of a stored record.
SyncState(record) ==
    << record.syncStatus, record.remoteId, record.lastSyncAttempt,
       record.syncError >>

\* A step of createRecord, or of a call of getSyncStats.
CreatesOrReads == Len(records') > Len(records) \/ stats' # stats

\* C31: only the sync coordinator and the explicit requeue mutate sync state --
\* the syncStatus, remoteId, lastSyncAttempt and syncError of a stored record
\* change only in a step of a pass that handles the record or of the requeue
\* of the record, and never in a step that creates a record or reads the store
\* for getSyncStats.
SyncStateFrame ==
    [][\A r \in StoredIds :
          /\ SyncState(records'[r]) # SyncState(records[r])
                => AttemptStep(r) \/ Requeues(r)
          /\ CreatesOrReads => SyncState(records'[r]) = SyncState(records[r])]_vars

SyncStateFrameWitness ==
    /\ Len(records) = 2
    /\ records[1].syncStatus = SYNCED
    /\ records[1].remoteId # Null
    /\ records[2].syncStatus = PENDING
    /\ records[2].lastSyncAttempt = Null
    /\ stats.pc = "done"
    /\ stats.total = 2
    /\ stats.synced = 1

\* A step of the pass in slot p: the continuation of one of its awaits.
PassStep(p) ==
    \/ StepFetch(p)
    \/ \E answer \in Answers : StepSend(p, answer)
    \/ \E dbOk \in BOOLEAN, dbOk2 \in BOOLEAN : StepWrite(p, dbOk, dbOk2)
    \/ PassFinish(p)

\* SpecTimed where the event loop resumes every pending await of a pass: the
\* store answers, and the request ends with a response or with its timeout.
SpecLive == Init /\ [][NextTimed]_vars /\ \A p \in Slots : WF_vars(PassStep(p))

\* triggerSync of the context value starts a pass.
TriggerStartsPass == triggerSyncContext /\ passes'[Provider].pc = "fetch"

\* C32: the flag 'pass in progress' is always released -- whenever isSyncing
\* is set it is reset later, whether the pass completes, finds the device
\* offline or fails, and once it is reset a trigger can start a new pass.
FlagReleased ==
    /\ isSyncing ~> ~isSyncing
    /\ []((engine = "ts" /\ dbReady /\ NetAvailable(net) /\ ~isSyncing)
             => ENABLED TriggerStartsPass)

FlagReleasedWitness ==
    /\ engine = "ts" /\ dbReady
    /\ ~isSyncing
    /\ passes[Provider].pc = "idle"
    /\ Len(records) = 1
    /\ records[1].syncStatus = PENDING
    /\ records[1].syncError # NoError
    /\ records[1].lastSyncAttempt = now
    /\ now > 1

\* C33: every result of getSyncStats satisfies total = synced + pending +
\* failed, also when the call runs while a pass or a createRecord changes the
\* store.
StatsConsistent ==
    (engine = "ts" /\ stats.pc = "done")
       => stats.total = stats.synced + stats.pending + stats.failed

\* The pass in slot p has selected its records and has not returned.
Running(p) == passes[p].pc \notin {"idle", "requeue", "select"}

\* The records the pass in slot p holds: the one in hand and the ones queued.
Held(p) == Queued(passes[p].queue) \cup {passes[p].entity.id}

\* C34: a record created while a pass is in flight is stored as PENDING beside
\* the records already stored, which the insert leaves as they are; the pass
\* in flight never takes up a record it did not select, and so does not send
\* the new one; no step changes a stored record that no pass holds; and every
\* pass that starts selects every PENDING record, the new one included.
CreatedDuringPass ==
    [][/\ (Len(records') > Len(records) /\ \E p \in Slots : Running(p))
             => /\ Len(records') = Len(records) + 1
                /\ records'[Len(records')].syncStatus = PENDING
                /\ \A r \in StoredIds : records'[r] = records[r]
       /\ \A p \in Slots :
             (Running(p) /\ passes'[p].pc \notin {"idle", "requeue", "select"})
                => /\ Queued(passes'[p].queue) \subseteq Queued(passes[p].queue)
                   /\ passes'[p].entity.id \in Held(p) \cup {NoEntity.id}
       /\ \A r \in StoredIds :
             (\A p \in Slots : r \notin Held(p)) => records'[r] = records[r]
       /\ \A p \in Slots :
             StartsPass(p)
                => \A r \in StoredIds :
                      records[r].syncStatus = PENDING
                         => r \in Queued(passes'[p].queue)]_vars

CreatedDuringPassWitness ==
    /\ engine = "ts"
    /\ Len(records) = 2
    /\ records[2].syncStatus = PENDING
    /\ records[2].lastSyncAttempt = Null
    /\ ~accepted[2]
    /\ \E p, q \in Slots :
          /\ passes[p].pc = "send"
          /\ passes[p].queue = << 1 >>
          /\ passes[q].pc = "fetch"
          /\ passes[q].results = << >>
          /\ 2 \in Queued(passes[q].queue)

====
